---------------------------- MODULE Spec2Model ----------------------------
(***************************************************************************)
(* Model of the two dashboards of e-commerce-demand-forecasting:           *)
(*   V1_sales_forecasting/V1_app.py       (daily grid, anomaly detection)  *)
(*   V2_multi_series_forecasting/V2_app.py (batch forecast, backtest)      *)
(*                                                                         *)
(* Dates are day numbers (integers); Sales, residuals and scores are        *)
(* integers standing for the floats of the program.  The statistical       *)
(* libraries (STL, IForest, Prophet) are modelled by what the scripts read *)
(* from them: STL either raises or yields one residual per row, IForest    *)
(* yields one score per row and labels the rows above its contamination    *)
(* quantile, Prophet raises on fewer than two rows and otherwise yields    *)
(* one forecast row per history date and per future date.                  *)
(***************************************************************************)
EXTENDS Integers, Sequences, FiniteSets, TLC

VARIABLES
    v1_pc,          \* position of the V1 script: off, load, branch, render, done, stopped, raised
    v1_csv,         \* 'Sample - Superstore.csv': [exists, rows]
    daily_sales,    \* V1_app.py:62, result of load_and_preprocess_data: [isNone, rows]
    daily_sales_with_anomalies, \* V1_app.py:64, [called, rows]
    chart,          \* V1_app.py:89-111, the markers of the figure: [spikes, drops]
    top_anomalies,  \* V1_app.py:126
    v1_out          \* what the V1 page shows: error, warning, chart, table

v1vars == <<v1_pc, v1_csv, daily_sales, daily_sales_with_anomalies, chart, top_anomalies, v1_out>>

VARIABLES
    v2_pc,          \* position of the V2 script: off, closed, load, branch, views, idle
    v2_csv,         \* 'train.csv': [exists, rows]
    forecast_cache, \* st.cache_data of load_and_forecast_data: [hit, value]
    backtest_cache, \* st.cache_data of get_backtest_metrics: [hit, value]
    session_state,  \* st.session_state: [keys, df_metrics]
    widgets,        \* the sidebar's selectboxes: [store, item], 0 before the first render
    run             \* the current (or last) script run: its trigger, locals and output

v2vars == <<v2_pc, v2_csv, forecast_cache, backtest_cache, session_state, widgets, run>>

vars == <<v1vars, v2vars>>

----------------------------------------------------------------------------
(* Bounds of the model *)

MaxDate == 2
MaxRecords == 3
MaxBlocks == 2
MaxStart == 2
MaxRun == 2
MaxSeriesLen == 1600

(* Values the inputs and the library outcomes are drawn from *)
SalesValues == {-1, 1, 2}
ResidValues == {-1, 0, 1}
ScoreValues == {1, 2, 3}
Stores == {1, 2}
Items == {1, 2}

----------------------------------------------------------------------------
(* Helpers on sets and sequences *)

SetMin(S) == CHOOSE x \in S : \A y \in S : x <= y
SetMax(S) == CHOOSE x \in S : \A y \in S : y <= x

RECURSIVE SeqSum(_)
SeqSum(s) == IF s = <<>> THEN 0 ELSE Head(s) + SeqSum(Tail(s))

Range(s) == {s[i] : i \in DOMAIN s}

SeqsUpTo(S, n) == UNION {[1..k -> S] : k \in 0..n}

Abs(x) == IF x < 0 THEN -x ELSE x

Min2(a, b) == IF a <= b THEN a ELSE b
Max2(a, b) == IF a >= b THEN a ELSE b

\* the elements of a finite set of integers, ascending
SortedSeq(S) ==
    [i \in 1..Cardinality(S) |-> CHOOSE d \in S : Cardinality({e \in S : e < d}) = i - 1]

Reverse(s) == [i \in 1..Len(s) |-> s[Len(s) + 1 - i]]

----------------------------------------------------------------------------
(* V1_app.py *)

\* mutant: keeps the last record of a date instead of summing the date's records
GroupSum_Last(rows, d) ==
    LET I == {i \in DOMAIN rows : rows[i].date = d}
    IN  IF I = {} THEN 0 ELSE rows[SetMax(I)].sales

\* df.groupby('Order Date')['Sales'].sum(): the Sales of one date, summed
GroupSum(rows, d) ==
    SeqSum([i \in 1..Len(rows) |-> IF rows[i].date = d THEN rows[i].sales ELSE 0])

\* pd.date_range(start=min, end=max, freq='D')
DateRange(lo, hi) == [i \in 1..(hi - lo + 1) |-> lo + i - 1]

\* .set_index('Order Date').reindex(full_date_range, fill_value=0)
Reindex(rows, full_date_range, fill_value) ==
    LET dates == {rows[i].date : i \in DOMAIN rows}
    IN  [i \in DOMAIN full_date_range |->
            LET d == full_date_range[i]
            IN  [ds |-> d, y |-> IF d \in dates THEN GroupSum(rows, d) ELSE fill_value]]

\* mutant: a missing file yields an empty table instead of None
load_and_preprocess_data_Empty(csv) ==
    IF ~csv.exists \/ csv.rows = <<>>
    THEN [isNone |-> FALSE, raised |-> FALSE, error |-> ~csv.exists, rows |-> <<>>]
    ELSE LET dates == {csv.rows[i].date : i \in DOMAIN csv.rows}
         IN  [isNone |-> FALSE, raised |-> FALSE, error |-> FALSE,
              rows |-> Reindex(csv.rows, DateRange(SetMin(dates), SetMax(dates)), 0)]

\* V1_app.py:13-27.  A missing file shows an error and yields None; an
\* empty table has no min/max date and date_range raises.
load_and_preprocess_data(csv) ==
    IF ~csv.exists THEN [isNone |-> TRUE, raised |-> FALSE, error |-> TRUE, rows |-> <<>>]
    ELSE IF csv.rows = <<>> THEN [isNone |-> FALSE, raised |-> TRUE, error |-> FALSE, rows |-> <<>>]
    ELSE LET dates == {csv.rows[i].date : i \in DOMAIN csv.rows}
             full_date_range == DateRange(SetMin(dates), SetMax(dates))
         IN  [isNone |-> FALSE, raised |-> FALSE, error |-> FALSE,
              rows |-> Reindex(csv.rows, full_date_range, 0)]

\* V1_app.py:62
V1Load ==
    /\ v1_pc = "load"
    /\ LET r == load_and_preprocess_data(v1_csv)
       IN  /\ daily_sales' = [isNone |-> r.isNone, rows |-> r.rows]
           /\ v1_out' = IF r.error THEN v1_out \cup {"error"} ELSE v1_out
           /\ v1_pc' = IF r.raised THEN "raised" ELSE "branch"
    /\ UNCHANGED <<v1_csv, daily_sales_with_anomalies, chart, top_anomalies>>
    /\ UNCHANGED v2vars

\* data[c] = vals: a column added to (or replaced in) every row
SetColumn(data, c, vals) ==
    [i \in DOMAIN data |->
        [k \in (DOMAIN data[i]) \cup {c} |-> IF k = c THEN vals[i] ELSE data[i][k]]]

HasColumn(data, c) == \A i \in DOMAIN data : c \in DOMAIN data[i]

\* np.abs(residuals) > 3 * residuals.std(), in integers: std is the sample
\* standard deviation (ddof = 1), NaN for a single row, and a comparison
\* with NaN is False.
StlAnomaly(resid) ==
    LET n == Len(resid)
        S == SeqSum(resid)
        dev2 == SeqSum([i \in 1..n |-> (n * resid[i] - S) * (n * resid[i] - S)])
    IN  [i \in 1..n |->
            IF n >= 2 /\ resid[i] * resid[i] * n * n * (n - 1) > 9 * dev2 THEN 1 ELSE 0]

\* What STL(data['y'], period=7, robust=True).fit() can do on n rows: raise,
\* or yield one residual per row.
STLOutcomes(n) ==
    {[ok |-> FALSE, resid |-> <<>>]} \cup [ok : {TRUE}, resid : [1..n -> ResidValues]]

\* What IForest(contamination=0.05, random_state=42).fit(X) yields on n rows:
\* decision_scores_, and threshold_, the contamination quantile of the
\* scores (some value between the lowest and the highest score).
IForestOutcomes(n) ==
    {f \in [decision_scores : [1..n -> ScoreValues], threshold : ScoreValues] :
        /\ \E i \in 1..n : f.decision_scores[i] <= f.threshold
        /\ \E i \in 1..n : f.threshold <= f.decision_scores[i]}

\* clf.labels_ = (decision_scores_ > threshold_)
IForestLabels(f) ==
    [i \in DOMAIN f.decision_scores |-> IF f.decision_scores[i] > f.threshold THEN 1 ELSE 0]

\* mutant: the direction is taken from the residual alone, anomalous or not
AnomalyType_AnyRow(label, resid) ==
    IF resid < 0 THEN "Drop" ELSE IF resid > 0 THEN "Spike" ELSE "NaN"

\* V1_app.py:55-57: NaN, then Spike where anomalous with residual > 0, then
\* Drop where anomalous with residual < 0
AnomalyType(label, resid) ==
    LET t0 == "NaN"
        t1 == IF label = 1 /\ resid > 0 THEN "Spike" ELSE t0
        t2 == IF label = 1 /\ resid < 0 THEN "Drop" ELSE t1
    IN  t2

\* V1_app.py:31-59.  stl and forest are the outcomes of the two library
\* calls.  Line 46 reads data['residuals'], a column that exists only when
\* STL succeeded: without it the read raises KeyError.
detect_anomalies(data, stl, forest) ==
    LET d1 == IF stl.ok
              THEN SetColumn(SetColumn(data, "residuals", stl.resid),
                             "stl_anomaly", StlAnomaly(stl.resid))
              ELSE SetColumn(data, "stl_anomaly", [i \in DOMAIN data |-> 0])
        warned == ~stl.ok
    IN  IF ~HasColumn(d1, "residuals")
        THEN [raised |-> TRUE, warned |-> warned, features |-> {}, rows |-> <<>>]
        ELSE LET d2 == SetColumn(d1, "iforest_anomaly_score", forest.decision_scores)
                 d3 == SetColumn(d2, "iforest_anomaly", IForestLabels(forest))
                 d4 == SetColumn(d3, "anomaly_type",
                           [i \in DOMAIN d3 |->
                               AnomalyType(d3[i].iforest_anomaly, d3[i].residuals)])
             IN  [raised |-> FALSE, warned |-> warned,
                  features |-> {"y", "residuals"}, rows |-> d4]

\* V1_app.py:63: daily_sales is not None
V1HasData(d) == ~d.isNone

\* V1_app.py:63-64
V1Detect ==
    /\ v1_pc = "branch"
    /\ V1HasData(daily_sales)
    /\ \E stl \in STLOutcomes(Len(daily_sales.rows)),
          forest \in IForestOutcomes(Len(daily_sales.rows)) :
          LET r == detect_anomalies(daily_sales.rows, stl, forest)
          IN  /\ daily_sales_with_anomalies' =
                    [called |-> TRUE, returned |-> ~r.raised, stl_ok |-> stl.ok,
                     features |-> r.features, rows |-> r.rows]
              /\ v1_out' = IF r.warned THEN v1_out \cup {"warning"} ELSE v1_out
              /\ v1_pc' = IF r.raised THEN "raised" ELSE "render"
    /\ UNCHANGED <<v1_csv, daily_sales, chart, top_anomalies>>
    /\ UNCHANGED v2vars

\* V1_app.py:65-66
V1Stop ==
    /\ v1_pc = "branch"
    /\ ~V1HasData(daily_sales)
    /\ v1_pc' = "stopped"
    /\ UNCHANGED <<v1_csv, daily_sales, daily_sales_with_anomalies, chart, top_anomalies, v1_out>>
    /\ UNCHANGED v2vars

\* the orders of 1..n in which key is non-increasing
DescendingOrders(key) ==
    LET n == Len(key)
    IN  {p \in [1..n -> 1..n] :
            /\ \A i, j \in 1..n : i # j => p[i] # p[j]
            /\ \A i \in 1..(n - 1) : key[p[i]] >= key[p[i + 1]]}

\* mutant: ascending=True
SortValues_Ascending(rows, by) ==
    LET n == Len(rows)
    IN  {[i \in 1..n |-> rows[p[i]]] :
            p \in {q \in [1..n -> 1..n] :
                      /\ \A i, j \in 1..n : i # j => q[i] # q[j]
                      /\ \A i \in 1..(n - 1) : rows[q[i]][by] <= rows[q[i + 1]][by]}}

\* .sort_values(by, ascending=False) with the default kind='quicksort', which
\* is not a stable sort: rows of equal key may come out in any order.
SortValues(rows, by) ==
    {[i \in DOMAIN rows |-> rows[p[i]]] :
        p \in DescendingOrders([i \in DOMAIN rows |-> rows[i][by]])}

HeadRows == 10

\* .head(n)
DfHead(rows, n) == SubSeq(rows, 1, IF Len(rows) < n THEN Len(rows) ELSE n)

\* V1_app.py:70-140
V1Render ==
    /\ v1_pc = "render"
    /\ LET data == daily_sales_with_anomalies.rows
           anomalies == SelectSeq(data, LAMBDA r : r.iforest_anomaly = 1)
       IN  /\ chart' = [spikes |-> SelectSeq(anomalies, LAMBDA r : r.anomaly_type = "Spike"),
                        drops |-> SelectSeq(anomalies, LAMBDA r : r.anomaly_type = "Drop")]
           /\ top_anomalies' \in SortValues(anomalies, "iforest_anomaly_score")
    /\ v1_out' = v1_out \cup {"chart", "table"}
    /\ v1_pc' = "done"
    /\ UNCHANGED <<v1_csv, daily_sales, daily_sales_with_anomalies>>
    /\ UNCHANGED v2vars

\* what st.dataframe shows (V1_app.py:130-135)
DisplayedTop == DfHead(top_anomalies, HeadRows)

----------------------------------------------------------------------------
(* V2_app.py *)

(* train.csv is a sequence of blocks [store, item, first, n, sales]: n        *)
(* consecutive daily rows of one (store, item), dated first .. first + n - 1. *)
(* A single row is a block with n = 1.                                        *)

LastDate(b) == b.first + b.n - 1

NRows(ts) == SeqSum([i \in DOMAIN ts |-> ts[i].n])

InDates(ts, d) == \E i \in DOMAIN ts : ts[i].first <= d /\ d <= LastDate(ts[i])

\* df['ds'].min(), df['ds'].max()
EarliestDate(ts) == SetMin({ts[i].first : i \in DOMAIN ts})
LatestDate(ts) == SetMax({LastDate(ts[i]) : i \in DOMAIN ts})

\* df[['store', 'item']].drop_duplicates(): the pairs in order of first appearance
all_pairs(df) ==
    LET firsts == {i \in DOMAIN df :
                      \A j \in 1..(i - 1) : df[j].store # df[i].store \/ df[j].item # df[i].item}
        idx == SortedSeq(firsts)
    IN  [k \in DOMAIN idx |-> [store |-> df[idx[k]].store, item |-> df[idx[k]].item]]

\* mutant: the rows of the store, whatever the item
TimeSeries_StoreOnly(df, store, item) == SelectSeq(df, LAMBDA b : b.store = store)

\* df[(df['store'] == store) & (df['item'] == item)]
TimeSeries(df, store, item) == SelectSeq(df, LAMBDA b : b.store = store /\ b.item = item)

\* Prophet.fit raises ValueError('Dataframe has less than 2 non-NaN rows.')
FitRaises(ts) == NRows(ts) < 2

\* Prophet's history_dates: the distinct dates of the series, ascending, as
\* maximal runs [first, n] of consecutive days
HistoryDates(ts) ==
    LET starts == {ts[i].first : i \in {j \in DOMAIN ts : ~InDates(ts, ts[j].first - 1)}}
        ends == {LastDate(ts[i]) : i \in {j \in DOMAIN ts : ~InDates(ts, LastDate(ts[j]) + 1)}}
        ss == SortedSeq(starts)
    IN  [k \in DOMAIN ss |->
            [first |-> ss[k], n |-> SetMin({e \in ends : e >= ss[k]}) - ss[k] + 1]]

ForecastPeriods == 365

\* m.make_future_dataframe(periods): the history dates, then periods
\* consecutive days after the last of them (they extend the last run)
make_future_dataframe(history_dates, periods) ==
    [k \in DOMAIN history_dates |->
        IF k = Len(history_dates)
        THEN [first |-> history_dates[k].first, n |-> history_dates[k].n + periods]
        ELSE history_dates[k]]

\* V2_app.py:37-48: the loop from pair i on.  A fit that raises ends the
\* loop and the function: nothing catches it.
RECURSIVE ForecastLoop(_, _, _, _)
ForecastLoop(df, pairs, i, acc) ==
    IF i > Len(pairs) THEN acc
    ELSE LET store == pairs[i].store
             item == pairs[i].item
             time_series == TimeSeries(df, store, item)
             fit == [store |-> store, item |-> item, time_series |-> time_series]
         IN  IF FitRaises(time_series)
             THEN [raised |-> TRUE, fits |-> Append(acc.fits, fit), all_forecasts |-> acc.all_forecasts]
             ELSE LET future == make_future_dataframe(HistoryDates(time_series), ForecastPeriods)
                      forecast == [store |-> store, item |-> item, ds |-> future]
                  IN  ForecastLoop(df, pairs, i + 1,
                          [raised |-> FALSE, fits |-> Append(acc.fits, fit),
                           all_forecasts |-> Append(acc.all_forecasts, forecast)])

\* V2_app.py:17-53.  A missing file shows an error and yields (None, None);
\* pd.concat of no forecast at all raises.
load_and_forecast_data(csv) ==
    IF ~csv.exists
    THEN [isNone |-> TRUE, raised |-> FALSE, error |-> TRUE, fits |-> <<>>,
          df |-> <<>>, forecast_df |-> <<>>]
    ELSE LET r == ForecastLoop(csv.rows, all_pairs(csv.rows), 1,
                      [raised |-> FALSE, fits |-> <<>>, all_forecasts |-> <<>>])
         IN  IF r.raised \/ r.all_forecasts = <<>>
             THEN [isNone |-> FALSE, raised |-> TRUE, error |-> FALSE, fits |-> r.fits,
                   df |-> <<>>, forecast_df |-> <<>>]
             ELSE [isNone |-> FALSE, raised |-> FALSE, error |-> FALSE, fits |-> r.fits,
                   df |-> csv.rows, forecast_df |-> r.all_forecasts]

BacktestInitial == 1095
BacktestPeriod == 180
BacktestHorizon == 90

\* ((df['ds'] > lo) & (df['ds'] <= hi)).any()
AnyIn(ts, lo, hi) ==
    \E i \in DOMAIN ts : Max2(ts[i].first, lo + 1) <= Min2(LastDate(ts[i]), hi)

\* df[df['ds'] <= cutoff].max()['ds']
ClosestDate(ts, cutoff) ==
    SetMax({Min2(LastDate(ts[i]), cutoff) : i \in {j \in DOMAIN ts : ts[j].first <= cutoff}})

\* prophet.diagnostics.generate_cutoffs: the while loop, result being the
\* cutoffs found so far, latest first
RECURSIVE CutoffLoop(_, _, _, _, _, _)
CutoffLoop(ts, horizon, initial, period, result, cutoff) ==
    IF result[Len(result)] >= EarliestDate(ts) + initial
    THEN LET c1 == cutoff - period
             c2 == IF ~AnyIn(ts, c1, c1 + horizon) /\ c1 > EarliestDate(ts)
                   THEN ClosestDate(ts, c1) - horizon
                   ELSE c1
         IN  CutoffLoop(ts, horizon, initial, period, Append(result, c2), c2)
    ELSE result

\* prophet.diagnostics.generate_cutoffs(df, horizon, initial, period): the
\* last cutoff is the latest date minus horizon, the others go back by
\* period while the cutoff is at least initial after the first date.
generate_cutoffs(ts, horizon, initial, period) ==
    LET cutoff == LatestDate(ts) - horizon
    IN  IF cutoff < EarliestDate(ts) THEN [raised |-> TRUE, cutoffs |-> <<>>]
        ELSE LET result == CutoffLoop(ts, horizon, initial, period, <<cutoff>>, cutoff)
                 kept == SubSeq(result, 1, Len(result) - 1)
             IN  IF kept = <<>> THEN [raised |-> TRUE, cutoffs |-> <<>>]
                 ELSE [raised |-> FALSE, cutoffs |-> Reverse(kept)]

\* rows dated at or before the cutoff: df[df['ds'] <= cutoff].shape[0]
RowsUpTo(ts, cutoff) ==
    SeqSum([i \in DOMAIN ts |-> Max2(0, Min2(LastDate(ts[i]), cutoff) - ts[i].first + 1)])

\* prophet.diagnostics.cross_validation: one fold per cutoff, each refitting
\* on the rows up to its cutoff (at least two are needed)
cross_validation(ts, initial, period, horizon) ==
    LET g == generate_cutoffs(ts, horizon, initial, period)
    IN  IF g.raised THEN g
        ELSE IF \E k \in DOMAIN g.cutoffs : RowsUpTo(ts, g.cutoffs[k]) < 2
             THEN [raised |-> TRUE, cutoffs |-> <<>>]
             ELSE g

\* mutant: period and horizon swapped
get_backtest_metrics_Swapped(df) ==
    LET sample_df == TimeSeries(df, 1, 1)
    IN  IF FitRaises(sample_df) THEN [raised |-> TRUE, cutoffs |-> <<>>]
        ELSE cross_validation(sample_df, BacktestInitial, BacktestHorizon, BacktestPeriod)

\* V2_app.py:56-72.  The metrics table is aggregated over the folds of
\* df_cv; the model keeps the folds' cutoffs.
get_backtest_metrics(df) ==
    LET sample_df == TimeSeries(df, 1, 1)
    IN  IF FitRaises(sample_df) THEN [raised |-> TRUE, cutoffs |-> <<>>]
        ELSE cross_validation(sample_df, BacktestInitial, BacktestPeriod, BacktestHorizon)

NoValue == [isNone |-> TRUE, df |-> <<>>, forecast_df |-> <<>>]
NoMetrics == [cutoffs |-> <<>>]

NewRun(clicked) ==
    [clicked |-> clicked, raised |-> "no", fits |-> <<>>, backtest |-> "no",
     df_data |-> NoValue, views |-> {}, figure |-> <<>>]

\* the browser opens the page: the first script run
V2Open ==
    /\ v2_pc = "closed"
    /\ run' = NewRun(FALSE)
    /\ v2_pc' = "load"
    /\ UNCHANGED <<v2_csv, forecast_cache, backtest_cache, session_state, widgets>>
    /\ UNCHANGED v1vars

\* the user reruns the script (no widget changed)
V2Rerun ==
    /\ v2_pc = "idle"
    /\ run' = NewRun(FALSE)
    /\ v2_pc' = "load"
    /\ UNCHANGED <<v2_csv, forecast_cache, backtest_cache, session_state, widgets>>
    /\ UNCHANGED v1vars

\* sorted(df_data['store'].unique()), sorted(df_data['item'].unique())
StoreOptions(df) == {df[i].store : i \in DOMAIN df}
ItemOptions(df) == {df[i].item : i \in DOMAIN df}

\* the user picks another store in the selectbox of the last run
V2SelectStore ==
    /\ v2_pc = "idle"
    /\ "sidebar" \in run.views
    /\ \E s \in StoreOptions(run.df_data.df) \ {widgets.store} :
          widgets' = [widgets EXCEPT !.store = s]
    /\ run' = NewRun(FALSE)
    /\ v2_pc' = "load"
    /\ UNCHANGED <<v2_csv, forecast_cache, backtest_cache, session_state>>
    /\ UNCHANGED v1vars

\* the user picks another item
V2SelectItem ==
    /\ v2_pc = "idle"
    /\ "sidebar" \in run.views
    /\ \E s \in ItemOptions(run.df_data.df) \ {widgets.item} :
          widgets' = [widgets EXCEPT !.item = s]
    /\ run' = NewRun(FALSE)
    /\ v2_pc' = "load"
    /\ UNCHANGED <<v2_csv, forecast_cache, backtest_cache, session_state>>
    /\ UNCHANGED v1vars

\* the user clicks 'Run Backtesting': st.button returns True in the run it triggers
V2ClickBacktest ==
    /\ v2_pc = "idle"
    /\ "sidebar" \in run.views
    /\ run' = NewRun(TRUE)
    /\ v2_pc' = "load"
    /\ UNCHANGED <<v2_csv, forecast_cache, backtest_cache, session_state, widgets>>
    /\ UNCHANGED v1vars

\* V2_app.py:76.  st.cache_data returns the stored value on a hit and stores
\* the value of a call that returned; a call that raised stores nothing and
\* ends the script run.
V2Load ==
    /\ v2_pc = "load"
    /\ IF forecast_cache.hit
       THEN /\ run' = [run EXCEPT !.df_data = forecast_cache.value]
            /\ v2_pc' = "branch"
            /\ UNCHANGED forecast_cache
       ELSE LET r == load_and_forecast_data(v2_csv)
                value == [isNone |-> r.isNone, df |-> r.df, forecast_df |-> r.forecast_df]
            IN  IF r.raised
                THEN /\ run' = [run EXCEPT !.raised = "load", !.fits = r.fits]
                     /\ v2_pc' = "idle"
                     /\ UNCHANGED forecast_cache
                ELSE /\ run' = [run EXCEPT !.df_data = value, !.fits = r.fits]
                     /\ forecast_cache' = [hit |-> TRUE, value |-> value]
                     /\ v2_pc' = "branch"
    /\ UNCHANGED <<v2_csv, backtest_cache, session_state, widgets>>
    /\ UNCHANGED v1vars

\* V2_app.py:78: df_data is not None and df_forecast is not None
V2HasData(value) == ~value.isNone

\* mutant: the backtest runs in every script run
BacktestRequested_Always(r) == TRUE

\* V2_app.py:90: st.button('Run Backtesting') is True in the run the click triggered
BacktestRequested(r) == r.clicked

\* V2_app.py:78 with (None, None): the script ends, nothing is rendered
V2Halt ==
    /\ v2_pc = "branch"
    /\ ~V2HasData(run.df_data)
    /\ v2_pc' = "idle"
    /\ UNCHANGED <<v2_csv, forecast_cache, backtest_cache, session_state, widgets, run>>
    /\ UNCHANGED v1vars

\* V2_app.py:79-92.  A selectbox keeps the user's choice and starts at its
\* first option.  get_backtest_metrics is cached like the load; when it
\* raises, the script run ends there.
V2Sidebar ==
    /\ v2_pc = "branch"
    /\ V2HasData(run.df_data)
    /\ LET stores == StoreOptions(run.df_data.df)
           items == ItemOptions(run.df_data.df)
           selected_store == IF widgets.store \in stores THEN widgets.store ELSE SetMin(stores)
           selected_item == IF widgets.item \in items THEN widgets.item ELSE SetMin(items)
           shown == [run EXCEPT !.views = @ \cup {"sidebar"}]
       IN  /\ widgets' = [store |-> selected_store, item |-> selected_item]
           /\ IF ~BacktestRequested(run)
              THEN /\ run' = shown
                   /\ v2_pc' = "views"
                   /\ UNCHANGED <<backtest_cache, session_state>>
              ELSE IF backtest_cache.hit
              THEN /\ run' = [shown EXCEPT !.backtest = "cached"]
                   /\ session_state' = [keys |-> session_state.keys \cup {"df_metrics"},
                                        df_metrics |-> backtest_cache.value]
                   /\ v2_pc' = "views"
                   /\ UNCHANGED backtest_cache
              ELSE LET r == get_backtest_metrics(run.df_data.df)
                       df_metrics == [cutoffs |-> r.cutoffs]
                   IN  IF r.raised
                       THEN /\ run' = [shown EXCEPT !.backtest = "computed", !.raised = "backtest"]
                            /\ v2_pc' = "idle"
                            /\ UNCHANGED <<backtest_cache, session_state>>
                       ELSE /\ run' = [shown EXCEPT !.backtest = "computed"]
                            /\ backtest_cache' = [hit |-> TRUE, value |-> df_metrics]
                            /\ session_state' = [keys |-> session_state.keys \cup {"df_metrics"},
                                                 df_metrics |-> df_metrics]
                            /\ v2_pc' = "views"
    /\ UNCHANGED <<v2_csv, forecast_cache>>
    /\ UNCHANGED v1vars

\* V2_app.py:94-194: the forecast plot of the selected pair, then the
\* metrics charts when session_state holds 'df_metrics', else the hint
V2Views ==
    /\ v2_pc = "views"
    /\ LET forecast_filtered ==
               SelectSeq(run.df_data.forecast_df,
                         LAMBDA f : f.store = widgets.store /\ f.item = widgets.item)
           historical_filtered == TimeSeries(run.df_data.df, widgets.store, widgets.item)
       IN  run' = [run EXCEPT
                      !.figure = <<[store |-> widgets.store, item |-> widgets.item,
                                    historical |-> historical_filtered,
                                    forecast |-> forecast_filtered]>>,
                      !.views = @ \cup {"forecast"}
                                  \cup (IF "df_metrics" \in session_state.keys
                                        THEN {"metrics"} ELSE {"hint"})]
    /\ v2_pc' = "idle"
    /\ UNCHANGED <<v2_csv, forecast_cache, backtest_cache, session_state, widgets>>
    /\ UNCHANGED v1vars

----------------------------------------------------------------------------
(* Specifications *)

Records == [date : 0..MaxDate, sales : SalesValues]

NoAnomalies ==
    [called |-> FALSE, returned |-> FALSE, stl_ok |-> FALSE, features |-> {}, rows |-> <<>>]
NoChart == [spikes |-> <<>>, drops |-> <<>>]

V1Fresh ==
    /\ daily_sales = [isNone |-> TRUE, rows |-> <<>>]
    /\ daily_sales_with_anomalies = NoAnomalies
    /\ chart = NoChart
    /\ top_anomalies = <<>>
    /\ v1_out = {}

V1Off ==
    /\ v1_pc = "off"
    /\ v1_csv = [exists |-> FALSE, rows |-> <<>>]
    /\ V1Fresh

V2Fresh ==
    /\ forecast_cache = [hit |-> FALSE, value |-> NoValue]
    /\ backtest_cache = [hit |-> FALSE, value |-> NoMetrics]
    /\ session_state = [keys |-> {}, df_metrics |-> NoMetrics]
    /\ widgets = [store |-> 0, item |-> 0]

V2Off ==
    /\ v2_pc = "off"
    /\ v2_csv = [exists |-> FALSE, rows |-> <<>>]
    /\ run = NewRun(FALSE)
    /\ V2Fresh

\* the logs with one record (Sales 1) on each date of a non-empty set of dates
DailyLogs ==
    {[i \in 1..Cardinality(S) |-> [date |-> SortedSeq(S)[i], sales |-> 1]] :
       S \in (SUBSET (0..MaxDate)) \ {{}}}

\* a daily series of store 1, item 1, of every length up to MaxSeriesLen,
\* followed by two days of store 2, item 2
DashboardTables ==
    {<<[store |-> 1, item |-> 1, first |-> 0, n |-> len, sales |-> 1],
       [store |-> 2, item |-> 2, first |-> 0, n |-> 2, sales |-> 1]>> : len \in 1..MaxSeriesLen}

Missing == [exists |-> FALSE, rows |-> <<>>]

\* the V1 dashboard on its log
InitV1 ==
    /\ v1_pc = "load"
    /\ v1_csv \in [exists : {TRUE}, rows : DailyLogs]
    /\ V1Fresh
    /\ V2Off

\* the V2 dashboard on its table
InitV2 ==
    /\ v2_pc = "closed"
    /\ v2_csv \in [exists : {TRUE}, rows : DashboardTables]
    /\ run = NewRun(FALSE)
    /\ V2Fresh
    /\ V1Off

\* both dashboards in a checkout without the data files
InitNoData ==
    /\ v1_pc = "load"
    /\ v1_csv = Missing
    /\ V1Fresh
    /\ v2_pc = "closed"
    /\ v2_csv = Missing
    /\ run = NewRun(FALSE)
    /\ V2Fresh

Init == InitV1 \/ InitV2 \/ InitNoData

NextV1 == V1Load \/ V1Detect \/ V1Stop \/ V1Render

NextV2 ==
    \/ V2Open \/ V2Rerun \/ V2SelectStore \/ V2SelectItem \/ V2ClickBacktest
    \/ V2Load \/ V2Halt \/ V2Sidebar \/ V2Views

Next == NextV1 \/ NextV2

\* either dashboard, run on its input file
Spec == Init /\ [][Next]_vars

\* load_and_preprocess_data on every log of up to MaxRecords records
InitGrid ==
    /\ v1_pc = "load"
    /\ v1_csv \in [exists : {TRUE}, rows : SeqsUpTo(Records, MaxRecords)]
    /\ V1Fresh
    /\ V2Off

NextGrid == V1Load

SpecGrid == InitGrid /\ [][NextGrid]_vars

Blocks == [store : Stores, item : Items, first : 0..MaxStart, n : 1..MaxRun, sales : {1}]

\* load_and_forecast_data (the first run's call) on every table of up to MaxBlocks blocks
InitBatch ==
    /\ v2_pc = "load"
    /\ v2_csv \in [exists : {TRUE}, rows : SeqsUpTo(Blocks, MaxBlocks)]
    /\ run = NewRun(FALSE)
    /\ V2Fresh
    /\ V1Off

NextBatch == V2Load

SpecBatch == InitBatch /\ [][NextBatch]_vars

----------------------------------------------------------------------------
(* C1 *)

InputDates == {v1_csv.rows[i].date : i \in DOMAIN v1_csv.rows}

RECURSIVE InputSum(_, _)
InputSum(I, d) ==
    IF I = {} THEN 0
    ELSE LET i == CHOOSE j \in I : TRUE
         IN  (IF v1_csv.rows[i].date = d THEN v1_csv.rows[i].sales ELSE 0)
             + InputSum(I \ {i}, d)

Loaded == v1_pc \notin {"off", "load"} /\ v1_csv.exists /\ v1_csv.rows # <<>>

\* C1: for a non-empty input log, load_and_preprocess_data returns exactly
\* (max_date - min_date) + 1 rows with strictly increasing dates (so no date
\* twice); the row of a date present in the input holds the sum of that
\* date's Sales, the row of a date absent from the input holds 0.
C1_GridBuilder ==
    Loaded =>
        LET out == daily_sales.rows
            lo == SetMin(InputDates)
            hi == SetMax(InputDates)
        IN  /\ ~daily_sales.isNone
            /\ v1_pc # "raised"
            /\ Len(out) = hi - lo + 1
            /\ out[1].ds = lo /\ out[Len(out)].ds = hi
            /\ \A i \in 1..(Len(out) - 1) : out[i].ds < out[i + 1].ds
            /\ \A i \in DOMAIN out :
                   IF out[i].ds \in InputDates
                   THEN out[i].y = InputSum(DOMAIN v1_csv.rows, out[i].ds)
                   ELSE out[i].y = 0

\* a log with two records on one date (non-zero sum) and a date with no record
C1_Witness ==
    /\ Loaded
    /\ \E i, j \in DOMAIN v1_csv.rows :
           i # j /\ v1_csv.rows[i].date = v1_csv.rows[j].date
    /\ \E k \in DOMAIN daily_sales.rows :
           daily_sales.rows[k].ds \notin InputDates /\ daily_sales.rows[k].y = 0
    /\ \E k \in DOMAIN daily_sales.rows :
           daily_sales.rows[k].ds \in InputDates /\ daily_sales.rows[k].y = 3

----------------------------------------------------------------------------
(* C2 *)

Scored == daily_sales_with_anomalies.rows

Anomalous(r) == r.iforest_anomaly = 1

AnomalousCount == Cardinality({i \in DOMAIN Scored : Anomalous(Scored[i])})

UnclassifiedCount ==
    Cardinality({i \in DOMAIN Scored : Anomalous(Scored[i]) /\ Scored[i].residuals = 0})

\* C2: in the result of detect_anomalies every Spike is anomalous with
\* residual > 0, every Drop is anomalous with residual < 0, an anomalous
\* point is Spike, Drop or unclassified, unclassified exactly when its
\* residual is 0, and a non-anomalous point carries no direction; the
\* chart's spikes and drops and the unclassified anomalies count every
\* anomalous point once.
C2_Classifier ==
    daily_sales_with_anomalies.returned =>
        /\ \A i \in DOMAIN Scored :
              LET r == Scored[i]
              IN  /\ r.iforest_anomaly \in {0, 1}
                  /\ r.anomaly_type \in {"Spike", "Drop", "NaN"}
                  /\ r.anomaly_type = "Spike" => Anomalous(r) /\ r.residuals > 0
                  /\ r.anomaly_type = "Drop" => Anomalous(r) /\ r.residuals < 0
                  /\ Anomalous(r) => (r.anomaly_type = "NaN" <=> r.residuals = 0)
                  /\ ~Anomalous(r) => r.anomaly_type = "NaN"
        /\ v1_pc = "done" =>
              /\ \A i \in DOMAIN chart.spikes : chart.spikes[i].residuals > 0
              /\ \A i \in DOMAIN chart.drops : chart.drops[i].residuals < 0
              /\ Len(chart.spikes) + Len(chart.drops)
                    + UnclassifiedCount
                 = AnomalousCount

\* a rendered result with a Spike, an unclassified anomaly (residual 0) and
\* a non-anomalous point of negative residual
C2_Witness ==
    /\ daily_sales_with_anomalies.returned
    /\ v1_pc = "done"
    /\ \E i, j, k \in DOMAIN Scored :
          /\ Scored[i].anomaly_type = "Spike"
          /\ Anomalous(Scored[j]) /\ Scored[j].residuals = 0
          /\ ~Anomalous(Scored[k]) /\ Scored[k].residuals < 0

----------------------------------------------------------------------------
(* C3 *)

\* C3: when the seasonal decomposition fails, detect_anomalies goes on: a
\* warning is shown, the outlier model is fitted on [value] alone, and the
\* function returns one scored row per input row, every anomalous one
\* unclassified.
C3_DecompositionFallback ==
    (daily_sales_with_anomalies.called /\ ~daily_sales_with_anomalies.stl_ok) =>
        /\ "warning" \in v1_out
        /\ v1_pc # "raised"
        /\ daily_sales_with_anomalies.returned
        /\ daily_sales_with_anomalies.features = {"y"}
        /\ Len(Scored) = Len(daily_sales.rows)
        /\ \A i \in DOMAIN Scored : Anomalous(Scored[i]) => Scored[i].anomaly_type = "NaN"

----------------------------------------------------------------------------
(* C10 *)

Score(r) == r.iforest_anomaly_score

\* the rows of top_anomalies are the anomalous rows of the result, each once
OnlyAnomalies ==
    /\ \A i \in DOMAIN top_anomalies : Anomalous(top_anomalies[i])
    /\ \A i \in DOMAIN top_anomalies : \E k \in DOMAIN Scored : Scored[k] = top_anomalies[i]
    /\ \A i, j \in DOMAIN top_anomalies : i # j => top_anomalies[i].ds # top_anomalies[j].ds
    /\ Len(top_anomalies) = AnomalousCount

ScoreDescending ==
    \A i, j \in DOMAIN top_anomalies : i < j => Score(top_anomalies[i]) >= Score(top_anomalies[j])

----------------------------------------------------------------------------
(* C4, C5 *)

BatchLoaded == v2_pc # "load" /\ v2_pc # "closed" /\ v2_pc # "off" /\ v2_csv.exists

ObservedPairs == {[store |-> v2_csv.rows[i].store, item |-> v2_csv.rows[i].item] : i \in DOMAIN v2_csv.rows}

RowsOf(p) == SelectSeq(v2_csv.rows, LAMBDA b : b.store = p.store /\ b.item = p.item)

Succeeds(p) == NRows(RowsOf(p)) >= 2

\* the dates of a sequence of runs
RunDates(runs) == UNION {runs[k].first .. (runs[k].first + runs[k].n - 1) : k \in DOMAIN runs}

RunRows(runs) == SeqSum([k \in DOMAIN runs |-> runs[k].n])

HistoricalDates(p) == RunDates(RowsOf(p))

\* C4: a series whose fit fails does not abort the batch: the combined
\* result holds the forecast of every series that succeeded, and the
\* operation fails only when every series fails.
C4_FailureIsolation ==
    BatchLoaded =>
        /\ run.raised = "load" <=> (\A p \in ObservedPairs : ~Succeeds(p))
        /\ run.raised = "no" =>
              \A p \in ObservedPairs :
                  Succeeds(p) =>
                      \E k \in DOMAIN forecast_cache.value.forecast_df :
                          /\ forecast_cache.value.forecast_df[k].store = p.store
                          /\ forecast_cache.value.forecast_df[k].item = p.item

\* C5: when every series fits, the forecaster is invoked once per distinct
\* observed (store, item), on exactly that pair's rows; the combined table
\* holds one forecast per pair, labelled with it, whose dates are the pair's
\* historical dates (ascending, each once) followed by exactly 365
\* consecutive days after the last of them.
C5_OneForecastPerPair ==
    (BatchLoaded /\ run.raised = "no" /\ run.fits # <<>>) =>
        LET forecast_df == forecast_cache.value.forecast_df
        IN  /\ Len(run.fits) = Cardinality(ObservedPairs)
            /\ Len(forecast_df) = Cardinality(ObservedPairs)
            /\ \A p \in ObservedPairs :
                  /\ Cardinality({k \in DOMAIN run.fits :
                        run.fits[k].store = p.store /\ run.fits[k].item = p.item}) = 1
                  /\ Cardinality({k \in DOMAIN forecast_df :
                        forecast_df[k].store = p.store /\ forecast_df[k].item = p.item}) = 1
            /\ \A k \in DOMAIN run.fits :
                  LET p == [store |-> run.fits[k].store, item |-> run.fits[k].item]
                      hist == HistoricalDates(p)
                      last == SetMax(hist)
                      ds == forecast_df[k].ds
                  IN  /\ p \in ObservedPairs
                      /\ run.fits[k].time_series = RowsOf(p)
                      /\ forecast_df[k].store = p.store /\ forecast_df[k].item = p.item
                      /\ RunDates(ds) = hist \cup (last + 1 .. last + 365)
                      /\ RunRows(ds) = Cardinality(hist) + 365
                      /\ \A a \in 1..(Len(ds) - 1) : ds[a].first + ds[a].n < ds[a + 1].first

\* two pairs of the same store, one of them with a repeated date, both forecast
C5_Witness ==
    /\ BatchLoaded /\ run.raised = "no"
    /\ Len(forecast_cache.value.forecast_df) = 2
    /\ forecast_cache.value.forecast_df[1].store = forecast_cache.value.forecast_df[2].store
    /\ forecast_cache.value.forecast_df[1].item # forecast_cache.value.forecast_df[2].item
    /\ RunRows(forecast_cache.value.forecast_df[1].ds) = 2 + 365

----------------------------------------------------------------------------
(* C6 *)

HasMetrics == "df_metrics" \in session_state.keys

\* C6: the backtest runs only in a script run that the 'Run Backtesting'
\* click triggered; session_state's result is absent until then, is set
\* only by that run's sidebar step, is never cleared, and the metrics view
\* is shown only when it is present; a run triggered by anything else
\* leaves it alone.
C6_BacktestOnDemand ==
    /\ [](/\ run.backtest # "no" => run.clicked
          /\ v2_pc \in {"off", "closed"} => ~HasMetrics
          /\ HasMetrics => backtest_cache.hit
          /\ "metrics" \in run.views => HasMetrics
          /\ "hint" \in run.views => ~HasMetrics)
    /\ [][/\ (session_state' # session_state \/ backtest_cache' # backtest_cache)
                => (run.clicked /\ v2_pc = "branch" /\ run'.backtest # "no")
          /\ HasMetrics => (HasMetrics' /\ session_state'.df_metrics = session_state.df_metrics)
         ]_vars

\* after a backtest, a run triggered by choosing store 2 shows the metrics
\* without computing anything
C6_Witness ==
    /\ v2_pc = "idle"
    /\ ~run.clicked /\ run.backtest = "no"
    /\ widgets.store = 2
    /\ HasMetrics /\ "metrics" \in run.views
    /\ Len(session_state.df_metrics.cutoffs) = 2

----------------------------------------------------------------------------
(* C7 *)

SampleRows == TimeSeries(v2_csv.rows, 1, 1)

series_length == NRows(SampleRows)

\* the script run computed the backtest (no cached value) and has left the sidebar
BacktestRan == run.backtest = "computed" /\ v2_pc \in {"views", "idle"}

Folds == IF run.raised = "backtest" THEN <<>> ELSE session_state.df_metrics.cutoffs

FoldCount(length) ==
    IF length - BacktestInitial - BacktestHorizon < 0 THEN 0
    ELSE ((length - BacktestInitial - BacktestHorizon) \div BacktestPeriod) + 1

FoldsWellPlaced ==
    \A k \in DOMAIN Folds :
        /\ Folds[k] - EarliestDate(SampleRows) >= BacktestInitial
        /\ Folds[k] + BacktestHorizon <= LatestDate(SampleRows)
        /\ \A d \in {Folds[k] + 1, Folds[k] + BacktestHorizon} : InDates(SampleRows, d)

----------------------------------------------------------------------------
(* C8 *)

\* C8: with the input file missing the view halts.  V1: no data,
\* detect_anomalies never invoked, no chart, no table.  V2: no data, no
\* model fitted, no button to click, no backtest, no forecast or metrics view.
C8_MissingFileHalts ==
    /\ (v1_pc \notin {"off", "load"} /\ ~v1_csv.exists) =>
          /\ v1_pc \in {"branch", "stopped"}
          /\ daily_sales.isNone
          /\ "error" \in v1_out
          /\ ~daily_sales_with_anomalies.called
          /\ v1_out \cap {"chart", "table"} = {}
          /\ chart = NoChart /\ top_anomalies = <<>>
    /\ (v2_pc \notin {"off", "closed", "load"} /\ ~v2_csv.exists) =>
          /\ run.df_data.isNone
          /\ run.raised = "no"
          /\ run.fits = <<>>
          /\ ~run.clicked /\ run.backtest = "no"
          /\ ~HasMetrics /\ ~backtest_cache.hit
          /\ run.views = {}
    /\ (v2_pc = "load" /\ ~v2_csv.exists) => (~run.clicked /\ ~HasMetrics)

\* both scripts have ended on their missing file
C8_Witness ==
    /\ ~v1_csv.exists /\ v1_pc = "stopped"
    /\ ~v2_csv.exists /\ v2_pc = "idle" /\ forecast_cache.hit

----------------------------------------------------------------------------
(* C9 *)

\* C9: when get_backtest_metrics raises in the run the click triggered, that
\* run still renders the forecast view of the selected store and item, and
\* session_state keeps no backtest result.
C9_BacktestFailureIsolated ==
    (v2_pc = "idle" /\ run.raised = "backtest") =>
        /\ "forecast" \in run.views
        /\ run.figure # <<>>
        /\ ~HasMetrics

=============================================================================
